---- MODULE Spec2Model ----
(***************************************************************************)
(* Model of brew-rs (src/src/lib.rs): a binding that shells out to the     *)
(* `brew` executable.  Every public operation is an action; the external   *)
(* processes it spawns are appended to `log` together with the outcome the *)
(* environment chose for them.                                             *)
(***************************************************************************)
EXTENDS Integers, Sequences, FiniteSets, TLC

VARIABLES
  options,  \* the Options value being built / handed to install (lib.rs 434-449)
  calls,    \* the builder methods called on `options` so far, with arguments
  pkg,      \* the Package the caller holds: self of the methods (lib.rs 38-66)
  pc,       \* "build" while building Options; "ready" before, "returned" after a call
  op,       \* the public operation that was called
  log,      \* the external processes the call ran, in order, with their outcomes
  result    \* the Result the call returned

vars == <<options, calls, pkg, pc, op, log, result>>

(***************************************************************************)
(* Bounds                                                                  *)
(***************************************************************************)
\* longest sequence of Options builder calls explored
MaxCalls == 3
\* largest number of boolean flags set in an Options value handed to install
MaxFlags == 1
\* longest package-option list (argument of options(), list handed to install)
MaxPkgOpts == 2

RECURSIVE SeqsUpTo(_, _)
SeqsUpTo(S, n) ==
  IF n = 0 THEN {<<>>}
  ELSE LET shorter == SeqsUpTo(S, n - 1)
       IN shorter \cup {Append(s, x) : s \in {t \in shorter : Len(t) = n - 1}, x \in S}

Range(s) == {s[i] : i \in 1..Len(s)}

(***************************************************************************)
(* Options and its builder (lib.rs 432-611)                                *)
(***************************************************************************)
BuildEnv == {"Std", "Super", "None"}

BuildEnv_default == "None"

PkgOptStrings == {"--with-x", "--with-y"}

Options_new ==
  [env |-> BuildEnv_default,
   ignore_dependencies |-> FALSE,
   only_dependencies |-> FALSE,
   build_from_source |-> FALSE,
   include_test |-> FALSE,
   force_bottle |-> FALSE,
   devel |-> FALSE,
   head |-> FALSE,
   keep_tmp |-> FALSE,
   build_bottle |-> FALSE,
   bottle_arch |-> FALSE,
   force |-> FALSE,
   git |-> FALSE,
   package_options |-> <<>>]

env_std(self) == [self EXCEPT !.env = "Std"]
env_super(self) == [self EXCEPT !.env = "Super"]
ignore_dependencies(self) == [self EXCEPT !.ignore_dependencies = TRUE]
build_from_source(self) == [self EXCEPT !.build_from_source = TRUE]
include_test(self) == [self EXCEPT !.include_test = TRUE]
force_bottle(self) == [self EXCEPT !.force_bottle = TRUE]
devel(self) == [self EXCEPT !.devel = TRUE]
head(self) == [self EXCEPT !.head = TRUE]
keep_tmp(self) == [self EXCEPT !.keep_tmp = TRUE]
build_bottle(self) == [self EXCEPT !.build_bottle = TRUE]
bottle_arch(self) == [self EXCEPT !.bottle_arch = TRUE]
force(self) == [self EXCEPT !.force = TRUE]
git(self) == [self EXCEPT !.git = TRUE]
option(self, opt) == [self EXCEPT !.package_options = Append(@, opt)]
options_extend(self, opts) == [self EXCEPT !.package_options = @ \o opts]
package_options(self) == self.package_options

Push(out, cond, flag) == IF cond THEN Append(out, flag) ELSE out

brew_options_swapped(self) ==
  LET o0 == CASE self.env = "Std" -> <<"--env=std">>
              [] self.env = "Super" -> <<"--env=super">>
              [] OTHER -> <<>>
      o1 == Push(o0, self.ignore_dependencies, "--ignore-dependencies")
      o2 == Push(o1, self.build_from_source, "--build-from-source")
      o3 == Push(o2, self.include_test, "--include-test")
      o4 == Push(o3, self.force_bottle, "--force-bottle")
      o5 == Push(o4, self.head, "--devel")
      o6 == Push(o5, self.devel, "--HEAD")
      o7 == Push(o6, self.keep_tmp, "--keep-tmp")
      o8 == Push(o7, self.build_bottle, "--build-bottle")
      o9 == Push(o8, self.bottle_arch, "--bottle-arch")
      o10 == Push(o9, self.force, "--force")
  IN Push(o10, self.git, "--git")

brew_options(self) ==
  LET o0 == CASE self.env = "Std" -> <<"--env=std">>
              [] self.env = "Super" -> <<"--env=super">>
              [] OTHER -> <<>>
      o1 == Push(o0, self.ignore_dependencies, "--ignore-dependencies")
      o2 == Push(o1, self.build_from_source, "--build-from-source")
      o3 == Push(o2, self.include_test, "--include-test")
      o4 == Push(o3, self.force_bottle, "--force-bottle")
      o5 == Push(o4, self.devel, "--devel")
      o6 == Push(o5, self.head, "--HEAD")
      o7 == Push(o6, self.keep_tmp, "--keep-tmp")
      o8 == Push(o7, self.build_bottle, "--build-bottle")
      o9 == Push(o8, self.bottle_arch, "--bottle-arch")
      o10 == Push(o9, self.force, "--force")
  IN Push(o10, self.git, "--git")

(***************************************************************************)
(* External processes                                                      *)
(***************************************************************************)
\* Package and Installed records, reduced to the fields the code reads
Installed(used) == [used_options |-> used]

Package(n, inst, pinned) == [name |-> n, installed |-> inst, pinned |-> pinned]

\* serde_json::from_str::<Vec<Package>> on the documents brew may print
from_str(text) ==
  CASE text = "[]" -> [ok |-> TRUE, v |-> <<>>]
    [] text = "[p]" -> [ok |-> TRUE, v |-> <<Package("p", <<>>, FALSE)>>]
    [] text = "[p+]" ->
         [ok |-> TRUE, v |-> <<Package("p", <<Installed(<<>>)>>, FALSE)>>]
    [] text = "[p+pin,q]" ->
         [ok |-> TRUE,
          v |-> <<Package("p", <<Installed(<<"--with-x">>)>>, TRUE),
                  Package("q", <<>>, FALSE)>>]
    [] OTHER -> [ok |-> FALSE, v |-> <<>>]

SpawnFailed == [spawned |-> FALSE, success |-> FALSE, stdout |-> "", stderr |-> ""]

Exited(succ, out, err) ==
  [spawned |-> TRUE, success |-> succ, stdout |-> out, stderr |-> err]

\* what the environment may answer to a brew command
Outcomes ==
  {SpawnFailed}
    \cup {Exited(TRUE, out, "") : out \in {"oops", "[]", "[p]", "[p+]", "[p+pin,q]"}}
    \cup {Exited(FALSE, "oops", "Error: e1"), Exited(FALSE, "", "Error: e2")}

\* what the environment may answer to `brew --version`
ProbeOutcomes ==
  {SpawnFailed, Exited(TRUE, "Homebrew 2", ""), Exited(FALSE, "", "Error: e1")}

NoAutoUpdate == {<<"HOMEBREW_NO_AUTO_UPDATE", "1">>}

Run(lg, program, args, env, o) ==
  Append(lg, [program |-> program, args |-> args, env |-> env, outcome |-> o])

Ok(v) == [ok |-> TRUE, err |-> "", text |-> "", value |-> v]

Err(e, t) == [ok |-> FALSE, err |-> e, text |-> t, value |-> <<>>]

Ret(lg, r) == [log |-> lg, res |-> r]

(***************************************************************************)
(* Operations.  Each returns [log, res]: the processes spawned so far, and *)
(* the Result.  o1, o2, o3 are the environment's answers to the first,     *)
(* second and third process the call may spawn.                            *)
(***************************************************************************)
test_brew_installed_io(lg, o) ==
  LET lg1 == Run(lg, "brew", <<"--version">>, NoAutoUpdate, o)
  IN IF ~o.spawned THEN Ret(lg1, Err("IOError", ""))
     ELSE IF o.success THEN Ret(lg1, Ok(<<>>))
     ELSE Ret(lg1, Err("NotInstalled", ""))

test_brew_installed_retry(lg, o) ==
  LET lg1 == Run(lg, "brew", <<"--version">>, NoAutoUpdate, o)
      lg2 == Run(lg1, "brew", <<"--version">>, NoAutoUpdate, o)
  IN IF o.spawned /\ o.success THEN Ret(lg1, Ok(<<>>))
     ELSE Ret(lg2, Err("NotInstalled", ""))

test_brew_installed(lg, o) ==
  LET lg1 == Run(lg, "brew", <<"--version">>, NoAutoUpdate, o)
  IN IF (IF o.spawned THEN o.success ELSE FALSE)
     THEN Ret(lg1, Ok(<<>>))
     ELSE Ret(lg1, Err("NotInstalled", ""))

Package_new(name, lg, o1, o2) ==
  LET lg1 == Run(lg, "/usr/local/bin/brew", <<"info", name, "--json=v1">>,
                 NoAutoUpdate, o1)
  IN IF ~o1.spawned THEN Ret(lg1, Err("IOError", ""))
     ELSE IF o1.success
     THEN LET packages == from_str(o1.stdout)
          IN IF ~packages.ok THEN Ret(lg1, Err("ParseError", ""))
             ELSE IF Len(packages.v) > 0 THEN Ret(lg1, Ok(<<Head(packages.v)>>))
             ELSE Ret(lg1, Err("PackageNotFound", ""))
     ELSE LET t == test_brew_installed(lg1, o2)
          IN IF ~t.res.ok THEN t
             ELSE Ret(t.log, Err("PackageNotFound", ""))

brew_return_noprobe(lg, command, name, o2, o3) ==
  IF command.success
  THEN Package_new(name, lg, o2, o3)
  ELSE Ret(lg, Err("UnknownError", command.stderr))

brew_return(lg, command, name, o2, o3) ==
  IF command.success
  THEN Package_new(name, lg, o2, o3)
  ELSE LET t == test_brew_installed(lg, o2)
       IN IF ~t.res.ok THEN t
          ELSE Ret(t.log, Err("UnknownError", command.stderr))

contains(iter1, iter2) ==
  LET hash == Range(iter1)
  IN \A i \in 1..Len(iter2) : iter2[i] \in hash

is_installed(self) == self.installed # <<>>

\* Some(..) as a one-element sequence, None as the empty one
install_options(self) ==
  IF self.installed = <<>> THEN <<>> ELSE <<Head(self.installed).used_options>>

install_name_first(self, opts, o1, o2, o3) ==
  LET sub == IF is_installed(self) THEN "reinstall" ELSE "install"
      lg1 == Run(<<>>, "brew",
                 <<sub, self.name>> \o brew_options(opts) \o package_options(opts),
                 NoAutoUpdate, o1)
  IN IF is_installed(self) /\ ~opts.force
        /\ contains(Head(install_options(self)), package_options(opts))
     THEN Package_new(self.name, <<>>, o1, o2)
     ELSE IF ~o1.spawned THEN Ret(lg1, Err("IOError", ""))
     ELSE IF o1.success
     THEN LET new == Package_new(self.name, lg1, o2, o3)
          IN IF ~new.res.ok THEN new
             ELSE IF is_installed(Head(new.res.value)) THEN new
             ELSE Ret(new.log, Err("InstallFailed", "Could not detect new install"))
     ELSE LET t == test_brew_installed(lg1, o2)
          IN IF ~t.res.ok THEN t
             ELSE Ret(t.log, Err("InstallFailed", o1.stderr))

install(self, opts, o1, o2, o3) ==
  LET short == /\ ~(is_installed(self) /\ opts.force)
               /\ is_installed(self)
               /\ contains(Head(install_options(self)), package_options(opts))
      sub == IF is_installed(self) /\ opts.force THEN "reinstall"
             ELSE IF is_installed(self) THEN "reinstall"
             ELSE "install"
      lg1 == Run(<<>>, "brew",
                 <<sub>> \o brew_options(opts) \o <<self.name>> \o package_options(opts),
                 NoAutoUpdate, o1)
  IN IF short THEN Package_new(self.name, <<>>, o1, o2)
     ELSE IF ~o1.spawned THEN Ret(lg1, Err("IOError", ""))
     ELSE IF o1.success
     THEN LET new == Package_new(self.name, lg1, o2, o3)
          IN IF ~new.res.ok THEN new
             ELSE IF is_installed(Head(new.res.value)) THEN new
             ELSE Ret(new.log, Err("InstallFailed", "Could not detect new install"))
     ELSE LET t == test_brew_installed(lg1, o2)
          IN IF ~t.res.ok THEN t
             ELSE Ret(t.log, Err("InstallFailed", o1.stderr))

uninstall(self, force_, ignore_deps, o1, o2, o3) ==
  LET a0 == <<"uninstall", self.name>>
      a1 == Push(a0, force_, "--force")
      args == Push(a1, ignore_deps, "--ignore-dependencies")
      lg1 == Run(<<>>, "brew", args, NoAutoUpdate, o1)
  IN IF ~o1.spawned THEN Ret(lg1, Err("IOError", ""))
     ELSE brew_return(lg1, o1, self.name, o2, o3)

pin(self, o1, o2, o3) ==
  IF ~self.pinned
  THEN LET lg1 == Run(<<>>, "brew", <<"pin", self.name>>, NoAutoUpdate, o1)
       IN IF ~o1.spawned THEN Ret(lg1, Err("IOError", ""))
          ELSE brew_return(lg1, o1, self.name, o2, o3)
  ELSE Ret(<<>>, Ok(<<self>>))

unpin(self, o1, o2, o3) ==
  IF self.pinned
  THEN LET lg1 == Run(<<>>, "brew", <<"unpin", self.name>>, NoAutoUpdate, o1)
       IN IF ~o1.spawned THEN Ret(lg1, Err("IOError", ""))
          ELSE brew_return(lg1, o1, self.name, o2, o3)
  ELSE Ret(<<>>, Ok(<<self>>))

upgrade_unguarded(self, o1, o2, o3) ==
  LET lg1 == Run(<<>>, "brew", <<"upgrade", self.name>>, NoAutoUpdate, o1)
  IN IF ~o1.spawned THEN Ret(lg1, Err("IOError", ""))
     ELSE brew_return(lg1, o1, self.name, o2, o3)

upgrade(self, o1, o2, o3) ==
  IF is_installed(self)
  THEN LET lg1 == Run(<<>>, "brew", <<"upgrade", self.name>>, NoAutoUpdate, o1)
       IN IF ~o1.spawned THEN Ret(lg1, Err("IOError", ""))
          ELSE brew_return(lg1, o1, self.name, o2, o3)
  ELSE Ret(<<>>, Err("NotInstalled", ""))

update(o1, o2) ==
  LET lg1 == Run(<<>>, "brew", <<"update">>, {}, o1)
  IN IF ~o1.spawned THEN Ret(lg1, Err("IOError", ""))
     ELSE IF o1.success THEN Ret(lg1, Ok(<<>>))
     ELSE LET t == test_brew_installed(lg1, o2)
          IN IF ~t.res.ok THEN t
             ELSE Ret(t.log, Err("UnknownError", o1.stderr))

\* HashMap<String, Package> as a function; a later entry of a name wins
RECURSIVE collect(_)
collect(v) ==
  IF v = <<>> THEN <<>>
  ELSE LET init == collect(SubSeq(v, 1, Len(v) - 1))
           p == v[Len(v)]
       IN [n \in (DOMAIN init) \cup {p.name} |-> IF n = p.name THEN p ELSE init[n]]

packages(arg, o1, o2) ==
  LET lg1 == Run(<<>>, "brew", <<"info", "--json=v1", arg>>, NoAutoUpdate, o1)
  IN IF ~o1.spawned THEN Ret(lg1, Err("IOError", ""))
     ELSE IF o1.success
     THEN LET v == from_str(o1.stdout)
          IN IF ~v.ok THEN Ret(lg1, Err("ParseError", ""))
             ELSE Ret(lg1, Ok(collect(v.v)))
     ELSE LET t == test_brew_installed(lg1, o2)
          IN IF ~t.res.ok THEN t
             ELSE Ret(t.log, Err("UnknownError", o1.stdout))

all_installed(o1, o2) == packages("--installed", o1, o2)

all_packages(o1, o2) == packages("--all", o1, o2)

(***************************************************************************)
(* The Options builder as a state machine (specification SpecOptions)      *)
(***************************************************************************)
Call(m, arg) == [m |-> m, arg |-> arg]

Built(o, m, arg) ==
  /\ pc = "build"
  /\ Len(calls) < MaxCalls
  /\ options' = o
  /\ calls' = Append(calls, Call(m, arg))
  /\ UNCHANGED <<pkg, pc, op, log, result>>

DoEnvStd == Built(env_std(options), "env_std", <<>>)

DoEnvSuper == Built(env_super(options), "env_super", <<>>)

DoIgnoreDependencies == Built(ignore_dependencies(options), "ignore_dependencies", <<>>)

DoBuildFromSource == Built(build_from_source(options), "build_from_source", <<>>)

DoIncludeTest == Built(include_test(options), "include_test", <<>>)

DoForceBottle == Built(force_bottle(options), "force_bottle", <<>>)

DoDevel == Built(devel(options), "devel", <<>>)

DoHead == Built(head(options), "head", <<>>)

DoKeepTmp == Built(keep_tmp(options), "keep_tmp", <<>>)

DoBuildBottle == Built(build_bottle(options), "build_bottle", <<>>)

DoBottleArch == Built(bottle_arch(options), "bottle_arch", <<>>)

DoForce == Built(force(options), "force", <<>>)

DoGit == Built(git(options), "git", <<>>)

DoOption == \E opt \in PkgOptStrings : Built(option(options, opt), "option", <<opt>>)

DoOptions ==
  \E opts \in SeqsUpTo(PkgOptStrings, MaxPkgOpts) :
    Built(options_extend(options, opts), "options", opts)

InitOptions ==
  /\ options = Options_new
  /\ calls = <<>>
  /\ pkg = Package("p", <<>>, FALSE)
  /\ pc = "build"
  /\ op = "none"
  /\ log = <<>>
  /\ result = Err("none", "")

NextOptions ==
  \/ DoEnvStd
  \/ DoEnvSuper
  \/ DoIgnoreDependencies
  \/ DoBuildFromSource
  \/ DoIncludeTest
  \/ DoForceBottle
  \/ DoDevel
  \/ DoHead
  \/ DoKeepTmp
  \/ DoBuildBottle
  \/ DoBottleArch
  \/ DoForce
  \/ DoGit
  \/ DoOption
  \/ DoOptions

SpecOptions == InitOptions /\ [][NextOptions]_vars

(***************************************************************************)
(* The operations as a state machine (specification Spec)                  *)
(***************************************************************************)
FlagFields ==
  {"ignore_dependencies", "build_from_source", "include_test", "force_bottle", "devel", "head", "keep_tmp", "build_bottle", "bottle_arch", "force", "git"}

\* the Options value the builder yields from new() by setting env to e, the
\* flags of F, and adding the package options po
MkOptions(e, F, po) ==
  [env |-> e,
   ignore_dependencies |-> "ignore_dependencies" \in F,
   build_from_source |-> "build_from_source" \in F,
   include_test |-> "include_test" \in F,
   force_bottle |-> "force_bottle" \in F,
   devel |-> "devel" \in F,
   head |-> "head" \in F,
   keep_tmp |-> "keep_tmp" \in F,
   build_bottle |-> "build_bottle" \in F,
   bottle_arch |-> "bottle_arch" \in F,
   force |-> "force" \in F,
   git |-> "git" \in F,
   only_dependencies |-> FALSE,
   package_options |-> po]

OptionsValues ==
  {MkOptions(e, F, po) :
     e \in BuildEnv,
     F \in {S \in SUBSET FlagFields : Cardinality(S) <= MaxFlags},
     po \in SeqsUpTo(PkgOptStrings, MaxPkgOpts)}

\* the Package values a caller may hold
Packages ==
  {Package("p", inst, pinned) :
     inst \in {<<>>, <<Installed(<<>>)>>, <<Installed(<<"--with-x">>)>>},
     pinned \in BOOLEAN}

Returns(name, r) ==
  /\ pc' = "returned"
  /\ op' = name
  /\ log' = r.log
  /\ result' = r.res
  /\ UNCHANGED <<calls, pkg>>

DoNew ==
  /\ pc = "ready"
  /\ \E name \in {"p", "q"}, o1 \in Outcomes, o2 \in ProbeOutcomes :
       /\ Returns("new", Package_new(name, <<>>, o1, o2))
       /\ UNCHANGED options

DoInstall ==
  /\ pc = "ready"
  /\ \E opts \in OptionsValues, o1 \in Outcomes, o2 \in Outcomes \cup ProbeOutcomes,
        o3 \in ProbeOutcomes :
       /\ Returns("install", install(pkg, opts, o1, o2, o3))
       /\ options' = opts

DoUninstall ==
  /\ pc = "ready"
  /\ \E f \in BOOLEAN, i \in BOOLEAN, o1 \in Outcomes,
        o2 \in Outcomes \cup ProbeOutcomes, o3 \in ProbeOutcomes :
       /\ Returns("uninstall", uninstall(pkg, f, i, o1, o2, o3))
       /\ UNCHANGED options

DoPin ==
  /\ pc = "ready"
  /\ \E o1 \in Outcomes, o2 \in Outcomes \cup ProbeOutcomes, o3 \in ProbeOutcomes :
       /\ Returns("pin", pin(pkg, o1, o2, o3))
       /\ UNCHANGED options

DoUnpin ==
  /\ pc = "ready"
  /\ \E o1 \in Outcomes, o2 \in Outcomes \cup ProbeOutcomes, o3 \in ProbeOutcomes :
       /\ Returns("unpin", unpin(pkg, o1, o2, o3))
       /\ UNCHANGED options

DoUpgrade ==
  /\ pc = "ready"
  /\ \E o1 \in Outcomes, o2 \in Outcomes \cup ProbeOutcomes, o3 \in ProbeOutcomes :
       /\ Returns("upgrade", upgrade(pkg, o1, o2, o3))
       /\ UNCHANGED options

DoUpdate ==
  /\ pc = "ready"
  /\ \E o1 \in Outcomes, o2 \in ProbeOutcomes :
       /\ Returns("update", update(o1, o2))
       /\ UNCHANGED options

DoAllInstalled ==
  /\ pc = "ready"
  /\ \E o1 \in Outcomes, o2 \in ProbeOutcomes :
       /\ Returns("all_installed", all_installed(o1, o2))
       /\ UNCHANGED options

DoAllPackages ==
  /\ pc = "ready"
  /\ \E o1 \in Outcomes, o2 \in ProbeOutcomes :
       /\ Returns("all_packages", all_packages(o1, o2))
       /\ UNCHANGED options

DoTestBrewInstalled ==
  /\ pc = "ready"
  /\ \E o \in ProbeOutcomes :
       /\ Returns("test_brew_installed", test_brew_installed(<<>>, o))
       /\ UNCHANGED options

Init ==
  /\ options = Options_new
  /\ calls = <<>>
  /\ pkg \in Packages
  /\ pc = "ready"
  /\ op = "none"
  /\ log = <<>>
  /\ result = Err("none", "")

Next ==
  \/ DoAllInstalled
  \/ DoAllPackages
  \/ DoUpdate
  \/ DoNew
  \/ DoInstall
  \/ DoUninstall
  \/ DoPin
  \/ DoUnpin
  \/ DoUpgrade
  \/ DoTestBrewInstalled

Spec == Init /\ [][Next]_vars

(***************************************************************************)
(* Properties                                                              *)
(***************************************************************************)
\* the subcommand of the i-th process of the last call
Sub(i) == log[i].args[1]

\* how many processes of the last call were actually spawned
NumSpawned == Cardinality({i \in 1..Len(log) : log[i].outcome.spawned})

\* the last call ran its own brew command, which exited unsuccessfully
OwnCommandFailed ==
  /\ pc = "returned"
  /\ Len(log) >= 1
  /\ log[1].outcome.spawned
  /\ ~log[1].outcome.success
  /\ Sub(1) = CASE op = "new" -> "info"
                [] op = "install" -> IF is_installed(pkg) THEN "reinstall" ELSE "install"
                [] op \in {"all_installed", "all_packages"} -> "info"
                [] op = "test_brew_installed" -> "none"
                [] OTHER -> op

ProbeSucceeded ==
  /\ Len(log) >= 2
  /\ log[2].args = <<"--version">>
  /\ log[2].outcome.spawned
  /\ log[2].outcome.success

\* C1 (as claimed): install on a package whose `installed` list is non-empty
\* always runs `brew reinstall <name>`; `brew install` is run only when the
\* list is empty.
C1_ReinstallWheneverInstalled ==
  (pc = "returned" /\ op = "install") =>
    /\ is_installed(pkg) =>
         \E i \in 1..Len(log) :
           Sub(i) = "reinstall" /\ pkg.name \in Range(log[i].args)
    /\ (\E i \in 1..Len(log) : Sub(i) = "install") => ~is_installed(pkg)

\* C2 (as claimed): one call of a public operation spawns at most one
\* external process.
C2_AtMostOneProcess == pc = "returned" => NumSpawned <= 1

\* C2 (amended): one call spawns at most three external processes (its own
\* command, the `brew info` of Package::new, the `brew --version` probe); at
\* most two for Package::new, update, all_installed and all_packages, and
\* exactly one attempt for test_brew_installed.
C2_AtMostThreeProcesses ==
  pc = "returned" =>
    /\ Len(log) <= 3
    /\ op \in {"new", "update", "all_installed", "all_packages"} => Len(log) <= 2
    /\ op = "test_brew_installed" => Len(log) = 1

C2_Witness ==
  /\ pc = "returned"
  /\ op = "upgrade"
  /\ NumSpawned = 3
  /\ <<Sub(1), Sub(2), Sub(3)>> = <<"upgrade", "info", "--version">>

\* C3 (as claimed): when an operation's brew invocation exits unsuccessfully
\* while Homebrew itself is installed, the returned Err carries exactly the
\* stderr text of that invocation.
C3_ErrCarriesStderr ==
  (OwnCommandFailed /\ ProbeSucceeded) =>
    ~result.ok /\ result.text = log[1].outcome.stderr

\* the package options handed to option/options by the calls cs, in call order
RECURSIVE AddedOptions(_)
AddedOptions(cs) ==
  IF cs = <<>> THEN <<>>
  ELSE AddedOptions(SubSeq(cs, 1, Len(cs) - 1)) \o cs[Len(cs)].arg

\* C4: after any sequence of builder calls from Options::new(), brew_options()
\* holds each documented flag once iff its builder was called, at most one
\* --env= entry (that of the last env_std/env_super call), in one fixed order;
\* the package options are those added by option/options, and new() alone
\* yields no flags and no package options.
C4_BuilderFlags ==
  LET called == {calls[i].m : i \in 1..Len(calls)}
      envCalls == {i \in 1..Len(calls) : calls[i].m \in {"env_std", "env_super"}}
      lastEnv == calls[CHOOSE i \in envCalls : \A j \in envCalls : j <= i].m
      envFlag == IF envCalls = {} THEN <<>>
                 ELSE IF lastEnv = "env_std" THEN <<"--env=std">>
                 ELSE <<"--env=super">>
      order == << <<"ignore_dependencies", "--ignore-dependencies">>,
                  <<"build_from_source", "--build-from-source">>,
                  <<"include_test", "--include-test">>,
                  <<"force_bottle", "--force-bottle">>,
                  <<"devel", "--devel">>,
                  <<"head", "--HEAD">>,
                  <<"keep_tmp", "--keep-tmp">>,
                  <<"build_bottle", "--build-bottle">>,
                  <<"bottle_arch", "--bottle-arch">>,
                  <<"force", "--force">>,
                  <<"git", "--git">> >>
      flags == SelectSeq(order, LAMBDA e : e[1] \in called)
      out == brew_options(options)
  IN pc = "build" =>
       /\ Len(out) = Len(envFlag) + Len(flags)
       /\ \A i \in 1..Len(envFlag) : out[i] = envFlag[i]
       /\ \A i \in 1..Len(flags) : out[Len(envFlag) + i] = flags[i][2]
       /\ package_options(options) = AddedOptions(calls)
       /\ calls = <<>> => (out = <<>> /\ package_options(options) = <<>>)

C4_Witness ==
  /\ pc = "build"
  /\ Len(calls) = 3
  /\ <<calls[1].m, calls[2].m, calls[3].m>> = <<"git", "env_std", "git">>
  /\ brew_options(options) = <<"--env=std", "--git">>

\* C5: test_brew_installed returns Ok(()) iff `brew --version` could be run
\* and exited successfully; otherwise Err(NotInstalled), never Err(IOError).
C5_TestBrewInstalled ==
  (pc = "returned" /\ op = "test_brew_installed") =>
    /\ Len(log) = 1
    /\ log[1].args = <<"--version">>
    /\ result.ok <=> (log[1].outcome.spawned /\ log[1].outcome.success)
    /\ ~result.ok => result.err = "NotInstalled"

C5_Witness ==
  /\ pc = "returned"
  /\ op = "test_brew_installed"
  /\ ~log[1].outcome.spawned
  /\ result.err = "NotInstalled"

\* C6: when an operation's own brew command was spawned and exited
\* unsuccessfully, `brew --version` is probed next; the result is
\* Err(NotInstalled) if the probe fails and otherwise the operation's error
\* (PackageNotFound for new, InstallFailed for install, UnknownError for the
\* others).
C6_ErrorPrecedence ==
  (OwnCommandFailed /\ op # "test_brew_installed") =>
    /\ Len(log) = 2
    /\ log[2].args = <<"--version">>
    /\ ~result.ok
    /\ result.err =
         IF ~ProbeSucceeded THEN "NotInstalled"
         ELSE CASE op = "new" -> "PackageNotFound"
                [] op = "install" -> "InstallFailed"
                [] OTHER -> "UnknownError"

C6_Witness ==
  /\ OwnCommandFailed
  /\ op = "install"
  /\ Len(log) = 2
  /\ log[2].outcome.spawned
  /\ ~log[2].outcome.success
  /\ result.err = "NotInstalled"

\* C7: upgrade on a package whose `installed` list is empty returns
\* Err(NotInstalled) and spawns nothing; otherwise it runs exactly
\* `brew upgrade <name>` and, when that succeeds, returns what Package::new
\* then reads from `brew info <name> --json=v1`.
C7_Upgrade ==
  (pc = "returned" /\ op = "upgrade") =>
    /\ ~is_installed(pkg) =>
         (log = <<>> /\ ~result.ok /\ result.err = "NotInstalled")
    /\ is_installed(pkg) =>
         /\ Len(log) >= 1
         /\ log[1].program = "brew"
         /\ log[1].args = <<"upgrade", pkg.name>>
         /\ \A i \in 2..Len(log) : Sub(i) # "upgrade"
         /\ (log[1].outcome.spawned /\ log[1].outcome.success) =>
              /\ Len(log) >= 2
              /\ log[2].args = <<"info", pkg.name, "--json=v1">>
              /\ result.ok =>
                   /\ log[2].outcome.success
                   /\ result.value = <<Head(from_str(log[2].outcome.stdout).v)>>

C7_Witness ==
  /\ pc = "returned"
  /\ op = "upgrade"
  /\ ~is_installed(pkg)
  /\ log = <<>>
  /\ result.err = "NotInstalled"

\* C8: the brew command run by install has the arguments: the subcommand,
\* the flags of brew_options(), the package name, the package options in the
\* order added (duplicates kept); it carries HOMEBREW_NO_AUTO_UPDATE=1.
C8_InstallArgs ==
  (pc = "returned" /\ op = "install") =>
    \A i \in 1..Len(log) :
      Sub(i) \in {"install", "reinstall"} =>
        /\ i = 1
        /\ log[i].program = "brew"
        /\ log[i].args =
             <<Sub(i)>> \o brew_options(options) \o <<pkg.name>>
               \o package_options(options)
        /\ <<"HOMEBREW_NO_AUTO_UPDATE", "1">> \in log[i].env

C8_Witness ==
  /\ pc = "returned"
  /\ op = "install"
  /\ Len(log) >= 1
  /\ log[1].args = <<"reinstall", "--force", "p", "--with-x", "--with-x">>

====
